---- MODULE Spec2Model ----
(***************************************************************************)
(* Sky coverage of a list of targets (RubinTargetSelector).                *)
(*                                                                         *)
(* The model follows skycoverage.py (make_pixels, make_polygons, coverage, *)
(* coverage_all, make_image), wn.py (is_left, wn_pnpoly, wn_multipnpoly),  *)
(* geom.py (rotate_to) and layers.py (get_layers).                         *)
(*                                                                         *)
(* Coordinates are degrees held in fixed point: one degree is Unit ticks.  *)
(* Unit is chosen so that every division of linspace and of make_image is  *)
(* exact on the inputs drawn here, so the integer arithmetic below is the  *)
(* real-number arithmetic of the code on those inputs.                     *)
(***************************************************************************)
EXTENDS Integers, Sequences, FiniteSets

VARIABLES
    entry,       \* the function the caller invoked
    pc,          \* position in that call
    err,         \* the exception that left the call, "" when none
    extent,      \* (xmin, ymin, xmax, ymax)
    size,        \* (nx, ny)
    targets,     \* list of (RA, Dec)
    focalplane,  \* closed template polygon
    pixels,      \* list of pixel centres
    polygons,    \* list of placed polygons
    image,       \* flat coverage vector (coverage_all's local `image`)
    idx,         \* number of polygons coverage_all has processed
    out,         \* what make_image returned: x edges, y edges, 2-D image
    qpoint,      \* wn_pnpoly's p
    qpoly,       \* wn_pnpoly's v
    wnres,       \* wn_pnpoly(p, v)
    wnrev        \* wn_pnpoly(p, v reversed)

vars == <<entry, pc, err, extent, size, targets, focalplane, pixels, polygons,
          image, idx, out, qpoint, qpoly, wnres, wnrev>>

----------------------------------------------------------------------------
(* Bounds of the model *)

MaxCoord == 1
MaxRows == 4
MaxPolys == 2
MaxN == 3
MaxPixels == 6
MaxCount == 1

----------------------------------------------------------------------------
(* Arithmetic helpers *)

RECURSIVE Gcd(_, _)
Gcd(a, b) == IF b = 0 THEN a ELSE Gcd(b, a % b)

Lcm(a, b) == (a * b) \div Gcd(a, b)

RECURSIVE LcmUpTo(_)
LcmUpTo(n) == IF n <= 1 THEN 1 ELSE Lcm(n, LcmUpTo(n - 1))

ScenarioSize == <<5, 5>>

LargestN == IF MaxN > ScenarioSize[1] THEN MaxN ELSE ScenarioSize[1]

\* ticks per degree: W/(n-1) and (W/(n-1))/2 are whole for every width W of
\* whole degrees and every n up to LargestN
Unit == 2 * LcmUpTo(LargestN - 1)

Deg(d) == d * Unit

Pt(x, y) == <<Deg(x), Deg(y)>>

Coord == (-1)..MaxCoord

Points == {Pt(x, y) : x \in Coord, y \in Coord}

Corners == {Pt(x, y) : x \in {-1, 1}, y \in {-1, 1}}

Reverse(s) == [i \in 1..Len(s) |-> s[Len(s) + 1 - i]]

RECURSIVE SumSeq(_)
SumSeq(s) == IF Len(s) = 0 THEN 0 ELSE s[1] + SumSeq(Tail(s))

SeqsUpTo(S, n) == UNION {[1..k -> S] : k \in 0..n}

\* closed polygons (first row = last row) of at most n rows over the points S:
\* a single row, or k-1 rows followed by the first row again
ClosedPolygonsOver(S, n) ==
    {<<a>> : a \in S}
    \cup UNION {{Append(s, s[1]) : s \in [1..(k - 1) -> S]} : k \in 2..n}

----------------------------------------------------------------------------
(* wn.py *)

IsLeftSwapped(p0, p1, p2) ==
    (p1[1] - p0[1]) * (p2[2] - p0[2]) + (p2[1] - p0[1]) * (p1[2] - p0[2])

IsLeft(p0, p1, p2) ==
    (p1[1] - p0[1]) * (p2[2] - p0[2]) - (p2[1] - p0[1]) * (p1[2] - p0[2])

\* the body of wn_pnpoly's loop for the edge (a, b) = (v[i], v[i+1]):
\* the amount added to wn
WnEdgeUpperInclusive(p, a, b) ==
    IF a[2] <= p[2]
    THEN IF b[2] >= p[2] /\ IsLeft(a, b, p) > 0 THEN 1 ELSE 0
    ELSE IF b[2] <= p[2] /\ IsLeft(a, b, p) < 0 THEN -1 ELSE 0

WnEdgeUpperRule(p, a, b) ==
    IF a[2] < p[2]
    THEN IF b[2] >= p[2] /\ IsLeft(a, b, p) > 0 THEN 1 ELSE 0
    ELSE IF b[2] < p[2] /\ a[2] >= p[2] /\ IsLeft(a, b, p) < 0 THEN -1 ELSE 0

WnEdge(p, a, b) ==
    IF a[2] <= p[2]
    THEN IF b[2] > p[2] /\ IsLeft(a, b, p) > 0 THEN 1 ELSE 0
    ELSE IF b[2] <= p[2] /\ IsLeft(a, b, p) < 0 THEN -1 ELSE 0

RECURSIVE WnLoop(_, _, _, _)
WnLoop(p, v, i, wn) ==
    IF i > Len(v) - 1 THEN wn
    ELSE WnLoop(p, v, i + 1, wn + WnEdge(p, v[i], v[i + 1]))

WnPnpoly(p, v) == WnLoop(p, v, 1, 0)

WnMultipnpoly(ps, v) == [i \in 1..Len(ps) |-> WnPnpoly(ps[i], v)]

----------------------------------------------------------------------------
(* skycoverage.py *)

Linspace(start, stop, num) ==
    IF num = 1 THEN <<start>>
    ELSE [i \in 1..num |-> start + (i - 1) * ((stop - start) \div (num - 1))]

\* np.array(np.meshgrid(x, y)): shape (2, ny, nx), [1][j][i] = x[i], [2][j][i] = y[j]
Meshgrid(x, y) ==
    << [j \in 1..Len(y) |-> [i \in 1..Len(x) |-> x[i]]],
       [j \in 1..Len(y) |-> [i \in 1..Len(x) |-> y[j]]] >>

MakePixelsOf(ext, sz) ==
    LET x == Linspace(ext[1], ext[3], sz[1])
        y == Linspace(ext[2], ext[4], sz[2])
        g == Meshgrid(x, y)
        \* .T: shape (nx, ny, 2), t[i][j][c] = g[c][j][i]
        t == [i \in 1..sz[1] |-> [j \in 1..sz[2] |-> <<g[1][j][i], g[2][j][i]>>]]
    IN  \* .reshape(-1, 2): row (i-1)*ny + j
        [k \in 1..(sz[1] * sz[2]) |->
            t[((k - 1) \div sz[2]) + 1][((k - 1) % sz[2]) + 1]]

CoverageRawWn(pxs, polygon) == WnMultipnpoly(pxs, polygon)

Coverage(pxs, polygon) ==
    LET w == WnMultipnpoly(pxs, polygon)
    IN  [i \in 1..Len(pxs) |-> IF w[i] # 0 THEN 1 ELSE 0]

\* image += cov, on int32 cells; a cell is at most the number of polygons,
\* far below 2^31, so the addition never wraps
AccumulateOverwrite(img, cov) == cov

AccumulateSubtract(img, cov) == [i \in 1..Len(img) |-> img[i] - cov[i]]

Accumulate(img, cov) == [i \in 1..Len(img) |-> img[i] + cov[i]]

\* coverage_all as a function of its arguments, for a non-empty polygon list
RECURSIVE CoverageAllLoop(_, _, _, _)
CoverageAllLoop(pxs, polys, i, img) ==
    IF i > Len(polys) THEN img
    ELSE CoverageAllLoop(pxs, polys, i + 1,
                         Accumulate(img, Coverage(pxs, polys[i])))

CoverageAllOf(pxs, polys) ==
    CoverageAllLoop(pxs, polys, 2, Coverage(pxs, polys[1]))

\* np.reshape(coverage, (nx, ny)): r[i][j] = coverage[(i-1)*ny + j]
Reshape(cov, nx, ny) == [i \in 1..nx |-> [j \in 1..ny |-> cov[(i - 1) * ny + j]]]

\* .T of a 2-D array of shape (n, m)
Transpose(r, n, m) == [j \in 1..m |-> [i \in 1..n |-> r[i][j]]]

ImageOfNoTranspose(cov, sz) == Reshape(cov, sz[1], sz[2])

ImageOf(cov, sz) == Transpose(Reshape(cov, sz[1], sz[2]), sz[1], sz[2])

NoImage == [x |-> <<>>, y |-> <<>>, image |-> <<>>]

MakeImageOf(cov, ext, sz) ==
    LET dx == (ext[3] - ext[1]) \div (sz[1] - 1)
        dy == (ext[4] - ext[2]) \div (sz[2] - 1)
    IN  [x |-> Linspace(ext[1] - dx \div 2, ext[3] + dx \div 2, sz[1] + 1),
         y |-> Linspace(ext[2] - dy \div 2, ext[4] + dy \div 2, sz[2] + 1),
         image |-> ImageOf(cov, sz)]

----------------------------------------------------------------------------
(* geom.py *)

\* What the floating-point round trip of rotate_to adds to a coordinate: the
\* placed value is below, at or above the exact one by less than any grid step.
Rounding == {-1, 0, 1}

Origin == <<0, 0>>

\* rotate_to(lon, lat, ang) for a target at the origin, the only targets drawn
\* here: rot_mat(0, 0) is the identity matrix, so the result is
\* to_ang(to_vec(ang)), each row of the input up to the rounding rnd of that
\* row (equal rows round equally: the closing row stays equal to the first)
RotateTo(lon, lat, ang, rnd) ==
    [i \in 1..Len(ang) |->
        <<ang[i][1] + rnd[ang[i]][1], ang[i][2] + rnd[ang[i]][2]>>]

Rows(ang) == {ang[i] : i \in 1..Len(ang)}

MakePolygonsOf(tgts, fp, rnd) ==
    [t \in 1..Len(tgts) |-> RotateTo(tgts[t][1], tgts[t][2], fp, rnd)]

----------------------------------------------------------------------------
(* Inputs *)

UnitSquare == <<Pt(-1, -1), Pt(1, -1), Pt(1, 1), Pt(-1, 1), Pt(-1, -1)>>

ScenarioExtent == <<Deg(-2), Deg(-2), Deg(2), Deg(2)>>

TestTriangle == <<Pt(-1, -1), Pt(1, -1), Pt(0, 1), Pt(-1, -1)>>

Sizes == {s \in (1..MaxN) \X (1..MaxN) : s[1] * s[2] <= MaxPixels}

Extents ==
    {<<Deg(x0), Deg(y0), Deg(x1), Deg(y1)>> :
        x0 \in Coord, y0 \in Coord, x1 \in Coord, y1 \in Coord}

ProperExtents == {e \in Extents : e[1] < e[3] /\ e[2] < e[4]}

\* the lower half of the unit square: its grids hold centres inside, on the
\* edges, at the corners and outside of the polygons drawn below
CovExtent == <<Deg(-1), Deg(-1), Deg(1), Deg(0)>>

\* the single-pixel grid and the widest two-row grid
CovSizes == {<<1, 1>>, <<MaxN, 2>>}

\* axis-aligned rectangles on the grid, listed counter-clockwise and clockwise
Rectangles ==
    LET ccw == {<<Pt(x0, y0), Pt(x1, y0), Pt(x1, y1), Pt(x0, y1), Pt(x0, y0)>> :
                   x0 \in Coord, y0 \in Coord, x1 \in Coord, y1 \in Coord}
        proper == {r \in ccw : r[1][1] < r[3][1] /\ r[1][2] < r[3][2]}
    IN  proper \cup {Reverse(r) : r \in proper}

\* wn_pnpoly's polygons: every closed polygon of at most MaxRows rows on the
\* grid, and the rectangles
WnPolygons == ClosedPolygonsOver(Points, MaxRows) \cup Rectangles

\* coverage_all's polygons, on the corners of the unit square: the degenerate
\* [a,a] and [a,b,a] (a # b), the triangles [a,b,c,a] of three distinct corners, and
\* the unit square in both orientations
CovPolygons ==
    {<<a, a>> : a \in Corners}
    \cup {t \in {<<a, b, a>> : a \in Corners, b \in Corners} : t[1] # t[2]}
    \cup {t \in {<<a, b, c, a>> : a \in Corners, b \in Corners, c \in Corners} :
             Cardinality({t[1], t[2], t[3]}) = 3}
    \cup {UnitSquare, Reverse(UnitSquare)}

NoExtent == <<0, 0, 0, 0>>

NoSize == <<0, 0>>

InitIdle ==
    /\ err = ""
    /\ idx = 0
    /\ out = NoImage
    /\ wnres = 0
    /\ wnrev = 0

\* layers.get_layers on the end-to-end scenario, with no target or with
\* targets at the origin
InitLayers ==
    /\ InitIdle
    /\ entry = "get_layers"
    /\ pc = "make_pixels"
    /\ extent = ScenarioExtent
    /\ size = ScenarioSize
    /\ targets \in SeqsUpTo({Origin}, MaxPolys)
    /\ focalplane = UnitSquare
    /\ pixels = <<>>
    /\ polygons = <<>>
    /\ image = <<>>
    /\ qpoint = Origin
    /\ qpoly = <<>>

\* skycoverage.coverage_all on a pixel grid and a list of closed polygons
InitCov ==
    /\ InitIdle
    /\ entry = "coverage_all"
    /\ pc = "coverage_all"
    /\ extent = CovExtent
    /\ size \in CovSizes
    /\ targets = <<>>
    /\ focalplane = <<>>
    /\ pixels = MakePixelsOf(extent, size)
    /\ polygons \in SeqsUpTo(CovPolygons, MaxPolys)
    /\ image = <<>>
    /\ qpoint = Origin
    /\ qpoly = <<>>

\* make_pixels then make_image on a flat coverage vector
InitGrid ==
    /\ InitIdle
    /\ entry = "make_image"
    /\ pc = "make_pixels"
    /\ extent \in ProperExtents
    /\ size \in Sizes
    /\ targets = <<>>
    /\ focalplane = <<>>
    /\ pixels = <<>>
    /\ polygons = <<>>
    /\ image \in [1..(size[1] * size[2]) -> 0..MaxCount]
    /\ qpoint = Origin
    /\ qpoly = <<>>

\* wn.wn_pnpoly on a point and a closed polygon
InitWn ==
    /\ InitIdle
    /\ entry = "wn_pnpoly"
    /\ pc = "wn_pnpoly"
    /\ extent = NoExtent
    /\ size = NoSize
    /\ targets = <<>>
    /\ focalplane = <<>>
    /\ pixels = <<>>
    /\ polygons = <<>>
    /\ image = <<>>
    /\ qpoint \in Points
    /\ qpoly \in WnPolygons

----------------------------------------------------------------------------
(* Actions *)

MakePixels ==
    /\ pc = "make_pixels"
    /\ pixels' = MakePixelsOf(extent, size)
    /\ pc' = IF entry = "get_layers" THEN "make_polygons" ELSE "make_image"
    /\ UNCHANGED <<entry, err, extent, size, targets, focalplane, polygons,
                   image, idx, out, qpoint, qpoly, wnres, wnrev>>

MakePolygons ==
    /\ pc = "make_polygons"
    /\ \E rnd \in [Rows(focalplane) -> Rounding \X Rounding] :
          polygons' = MakePolygonsOf(targets, focalplane, rnd)
    /\ pc' = "coverage_all"
    /\ UNCHANGED <<entry, err, extent, size, targets, focalplane, pixels,
                   image, idx, out, qpoint, qpoly, wnres, wnrev>>

\* polygons[0] on an empty list
CoverageAllIndexError ==
    /\ pc = "coverage_all"
    /\ Len(polygons) = 0
    /\ pc' = "raised"
    /\ err' = "IndexError"
    /\ UNCHANGED <<entry, extent, size, targets, focalplane, pixels, polygons,
                   image, idx, out, qpoint, qpoly, wnres, wnrev>>

CoverageAllFirst ==
    /\ pc = "coverage_all"
    /\ Len(polygons) > 0
    /\ image' = Coverage(pixels, polygons[1])
    /\ idx' = 1
    /\ pc' = "loop"
    /\ UNCHANGED <<entry, err, extent, size, targets, focalplane, pixels,
                   polygons, out, qpoint, qpoly, wnres, wnrev>>

CoverageAllStep ==
    /\ pc = "loop"
    /\ idx < Len(polygons)
    /\ image' = Accumulate(image, Coverage(pixels, polygons[idx + 1]))
    /\ idx' = idx + 1
    /\ UNCHANGED <<entry, pc, err, extent, size, targets, focalplane, pixels,
                   polygons, out, qpoint, qpoly, wnres, wnrev>>

CoverageAllReturn ==
    /\ pc = "loop"
    /\ idx = Len(polygons)
    /\ pc' = IF entry = "get_layers" THEN "make_image" ELSE "done"
    /\ UNCHANGED <<entry, err, extent, size, targets, focalplane, pixels,
                   polygons, image, idx, out, qpoint, qpoly, wnres, wnrev>>

\* (xmax-xmin)/(nx-1) or (ymax-ymin)/(ny-1) with a size of 1
MakeImageZeroDivision ==
    /\ pc = "make_image"
    /\ (size[1] = 1 \/ size[2] = 1)
    /\ pc' = "raised"
    /\ err' = "ZeroDivisionError"
    /\ UNCHANGED <<entry, extent, size, targets, focalplane, pixels, polygons,
                   image, idx, out, qpoint, qpoly, wnres, wnrev>>

MakeImage ==
    /\ pc = "make_image"
    /\ size[1] # 1
    /\ size[2] # 1
    /\ out' = MakeImageOf(image, extent, size)
    /\ pc' = "done"
    /\ UNCHANGED <<entry, err, extent, size, targets, focalplane, pixels,
                   polygons, image, idx, qpoint, qpoly, wnres, wnrev>>

WnCall ==
    /\ pc = "wn_pnpoly"
    /\ wnres' = WnPnpoly(qpoint, qpoly)
    /\ pc' = "wn_reversed"
    /\ UNCHANGED <<entry, err, extent, size, targets, focalplane, pixels,
                   polygons, image, idx, out, qpoint, qpoly, wnrev>>

WnCallReversed ==
    /\ pc = "wn_reversed"
    /\ wnrev' = WnPnpoly(qpoint, Reverse(qpoly))
    /\ pc' = "done"
    /\ UNCHANGED <<entry, err, extent, size, targets, focalplane, pixels,
                   polygons, image, idx, out, qpoint, qpoly, wnres>>

----------------------------------------------------------------------------
(* Specifications *)

\* the scenario's size is (5, 5), so make_image's division never fails here
Next ==
    \/ MakePixels
    \/ MakePolygons
    \/ CoverageAllIndexError
    \/ CoverageAllFirst
    \/ CoverageAllStep
    \/ CoverageAllReturn
    \/ MakeImage

Spec == InitLayers /\ [][Next]_vars

NextCov ==
    \/ CoverageAllIndexError
    \/ CoverageAllFirst
    \/ CoverageAllStep
    \/ CoverageAllReturn

SpecCov == InitCov /\ [][NextCov]_vars

NextGrid ==
    \/ MakePixels
    \/ MakeImageZeroDivision
    \/ MakeImage

SpecGrid == InitGrid /\ [][NextGrid]_vars

NextWn ==
    \/ WnCall
    \/ WnCallReversed

SpecWn == InitWn /\ [][NextWn]_vars

----------------------------------------------------------------------------
(* Geometry the properties are stated with *)

Cross(a, b, c) == (b[1] - a[1]) * (c[2] - a[2]) - (b[2] - a[2]) * (c[1] - a[1])

EdgesOf(v) == 1..(Len(v) - 1)

Min(a, b) == IF a < b THEN a ELSE b

Max(a, b) == IF a > b THEN a ELSE b

\* closed, no zero-length edge, every vertex on the same side of every edge,
\* not all vertices on one line
Convex(v) ==
    /\ Len(v) >= 4
    /\ v[1] = v[Len(v)]
    /\ \A i \in EdgesOf(v) : v[i] # v[i + 1]
    /\ \/ \A i \in EdgesOf(v) : \A k \in 1..Len(v) : Cross(v[i], v[i + 1], v[k]) >= 0
       \/ \A i \in EdgesOf(v) : \A k \in 1..Len(v) : Cross(v[i], v[i + 1], v[k]) <= 0
    /\ \E i \in EdgesOf(v) : \E k \in 1..Len(v) : Cross(v[i], v[i + 1], v[k]) # 0

StrictlyInside(p, v) ==
    \/ \A i \in EdgesOf(v) : Cross(v[i], v[i + 1], p) > 0
    \/ \A i \in EdgesOf(v) : Cross(v[i], v[i + 1], p) < 0

OnEdge(p, a, b) ==
    /\ Cross(a, b, p) = 0
    /\ Min(a[1], b[1]) <= p[1] /\ p[1] <= Max(a[1], b[1])
    /\ Min(a[2], b[2]) <= p[2] /\ p[2] <= Max(a[2], b[2])

OnBoundary(p, v) == \E i \in EdgesOf(v) : OnEdge(p, v[i], v[i + 1])

StrictlyOutside(p, v) == ~StrictlyInside(p, v) /\ ~OnBoundary(p, v)

DistinctVertices(v) == Cardinality(Rows(v))

Zeros(n) == [k \in 1..n |-> 0]

IndexPermutations(n) == {f \in [1..n -> 1..n] : \A i \in 1..n : \E j \in 1..n : f[j] = i}

Permuted(s, f) == [i \in 1..Len(s) |-> s[f[i]]]

\* C-order flattening of a 2-D array of r rows and c columns
Flatten(a, r, c) ==
    [m \in 1..(r * c) |-> a[((m - 1) \div c) + 1][((m - 1) % c) + 1]]

Returned == pc = "done"

Finished == pc \in {"done", "raised"}

----------------------------------------------------------------------------
(* Properties *)

\* C1: coverage_all on an empty polygon list returns an all-zero coverage
\* vector of length len(pixels) and raises nothing.
\* (SpecCov; the code evaluates polygons[0] and raises IndexError)
C1_EmptyListGivesZeros ==
    (entry = "coverage_all" /\ Len(polygons) = 0 /\ pc # "coverage_all")
        => (Returned /\ err = "" /\ image = Zeros(Len(pixels)))

InUnitSquareClosed(px) ==
    /\ px[1] \in {Deg(-1), Deg(0), Deg(1)}
    /\ px[2] \in {Deg(-1), Deg(0), Deg(1)}

InUnitSquareHalfOpen(px) ==
    /\ px[1] \in {Deg(-1), Deg(0)}
    /\ px[2] \in {Deg(-1), Deg(0)}

OnScenarioRim(px) ==
    \/ px[1] \in {Deg(-2), Deg(2)}
    \/ px[2] \in {Deg(-2), Deg(2)}

ScenarioCovered ==
    /\ entry = "get_layers"
    /\ pc \in {"make_image", "done"}
    /\ Len(targets) = 1

\* C2 as stated: in the end-to-end scenario with identity placement the
\* coverage is 1 exactly at the centres in [-1,1]x[-1,1] (nine of them).
C2_ClosedSquareCovered ==
    (ScenarioCovered /\ polygons[1] = focalplane)
        => /\ \A k \in 1..Len(pixels) :
                (image[k] = 1) <=> InUnitSquareClosed(pixels[k])
           /\ SumSeq(image) = 9

\* C2 amended: in the end-to-end scenario the centre (0,0) is covered, no centre
\* with a coordinate of -2 or 2 is, every cell is 0 or 1 and the sum is between
\* 1 and 9; with the placement exactly the identity the covered centres are
\* exactly the four with both coordinates in {-1, 0} (the half-open square
\* [-1,1)x[-1,1)), so the sum is 4.
C2_HalfOpenSquareCovered ==
    ScenarioCovered
        => /\ Len(image) = Len(pixels)
           /\ Len(pixels) = 25
           /\ \A k \in 1..Len(pixels) :
                /\ image[k] \in {0, 1}
                /\ pixels[k] = Origin => image[k] = 1
                /\ OnScenarioRim(pixels[k]) => image[k] = 0
                /\ polygons[1] = focalplane =>
                       ((image[k] = 1) <=> InUnitSquareHalfOpen(pixels[k]))
           /\ SumSeq(image) \in 1..9
           /\ polygons[1] = focalplane => SumSeq(image) = 4

C2_Witness ==
    /\ ScenarioCovered
    /\ pc = "done"
    /\ polygons[1] = focalplane
    /\ SumSeq(image) = 4
    /\ \E k \in 1..Len(pixels) : pixels[k] = Pt(1, 1) /\ image[k] = 0

\* C3: while coverage_all accumulates and when it has returned, every cell of
\* the coverage is an integer between 0 and the number of polygons processed,
\* which is at most the number of polygons.
C3_CoverageBounded ==
    (entry = "coverage_all" /\ pc \in {"loop", "done"})
        => /\ Len(image) = Len(pixels)
           /\ idx >= 1
           /\ idx <= Len(polygons)
           /\ \A k \in 1..Len(image) : image[k] \in 0..idx

C3_Witness ==
    /\ entry = "coverage_all"
    /\ pc = "done"
    /\ idx = 2
    /\ \E k \in 1..Len(image) : image[k] = 2
    /\ \E k \in 1..Len(image) : image[k] = 1
    /\ \E k \in 1..Len(image) : image[k] = 0

C5_MalformedPolygonRaises ==
    (entry = "coverage_all" /\ Finished
       /\ \E i \in 1..Len(polygons) : DistinctVertices(polygons[i]) < 3)
        => pc = "raised"

\* C6: the coverage coverage_all returns for a non-empty polygon list is the
\* coverage of every permutation of that list.
C6_AccumulationCommutes ==
    (entry = "coverage_all" /\ Returned)
        => \A f \in IndexPermutations(Len(polygons)) :
              CoverageAllOf(pixels, Permuted(polygons, f)) = image

C6_Witness ==
    /\ entry = "coverage_all"
    /\ Returned
    /\ Len(polygons) = 2
    /\ Coverage(pixels, polygons[1]) # Coverage(pixels, polygons[2])
    /\ \E k \in 1..Len(image) : Coverage(pixels, polygons[1])[k] = 1
    /\ \E k \in 1..Len(image) : Coverage(pixels, polygons[2])[k] = 1
    /\ image = CoverageAllOf(pixels, <<polygons[2], polygons[1]>>)

\* C7: after the iteration that adds polygon P to the non-empty list L already
\* processed, every cell is at least its value in coverage_all(pixels, L) and
\* at most that value plus 1.
C7_AddingPolygonMonotone ==
    (entry = "coverage_all" /\ pc \in {"loop", "done"} /\ idx >= 2)
        => LET before == CoverageAllOf(pixels, SubSeq(polygons, 1, idx - 1))
           IN  \A k \in 1..Len(pixels) :
                  /\ image[k] >= before[k]
                  /\ image[k] <= before[k] + 1

C7_Witness ==
    /\ entry = "coverage_all"
    /\ pc = "loop"
    /\ idx = 2
    /\ LET before == CoverageAllOf(pixels, SubSeq(polygons, 1, 1))
       IN  /\ \E k \in 1..Len(pixels) : before[k] = 1 /\ image[k] = 2
           /\ \E k \in 1..Len(pixels) : before[k] = 1 /\ image[k] = 1
           /\ \E k \in 1..Len(pixels) : before[k] = 0 /\ image[k] = 1

\* C8: for a closed convex polygon with 3 non-collinear vertices, wn_pnpoly is
\* nonzero at a point strictly inside and 0 at a point strictly outside; for
\* the triangle [(-1,-1),(1,-1),(0,1),(-1,-1)] it is 1 at (0,0) and 0 at (1,1).
C8_WindingSeparates ==
    (entry = "wn_pnpoly" /\ pc # "wn_pnpoly" /\ Convex(qpoly))
        => /\ StrictlyInside(qpoint, qpoly) => wnres # 0
           /\ StrictlyOutside(qpoint, qpoly) => wnres = 0
           /\ (qpoly = TestTriangle /\ qpoint = Origin) => wnres = 1
           /\ (qpoly = TestTriangle /\ qpoint = Pt(1, 1)) => wnres = 0

C8_Witness ==
    /\ entry = "wn_pnpoly"
    /\ pc = "done"
    /\ qpoly = TestTriangle
    /\ Convex(qpoly)
    /\ qpoint = Origin
    /\ StrictlyInside(qpoint, qpoly)
    /\ wnres = 1

\* C9: the winding number of the reversed polygon is the negated winding
\* number, at every point (on edges and vertices too), so the 0/1 coverage of
\* a polygon and of its reversal are equal.
C9_ReversalNegates ==
    (entry = "wn_pnpoly" /\ Returned)
        => /\ wnrev = -wnres
           /\ Coverage(<<qpoint>>, Reverse(qpoly)) = Coverage(<<qpoint>>, qpoly)

C9_Witness ==
    /\ entry = "wn_pnpoly"
    /\ Returned
    /\ Len(qpoly) = 5
    /\ qpoint = qpoly[1]
    /\ wnres = 1
    /\ wnrev = -1

\* C10: for every extent with lon_min < lon_max, lat_min < lat_max and every
\* size of two positive integers, make_image returns n_lon+1 x edges and
\* n_lat+1 y edges, the k-th pixel centre of each axis being the midpoint of
\* edges k and k+1.
\* (SpecGrid; the code divides by n-1 and raises when n_lon = 1 or n_lat = 1)
C10_EdgesForEverySize ==
    (entry = "make_image" /\ Finished)
        => LET nx == size[1]
               ny == size[2]
           IN  /\ Returned
               /\ Len(out.x) = nx + 1
               /\ Len(out.y) = ny + 1
               /\ \A i \in 1..nx :
                     2 * pixels[(i - 1) * ny + 1][1] = out.x[i] + out.x[i + 1]
               /\ \A j \in 1..ny :
                     2 * pixels[j][2] = out.y[j] + out.y[j + 1]

====
